---- MODULE Spec2Model ----
(***************************************************************************)
(* A model of components/data_loader.py (class DataLoader) and of the      *)
(* "clear cache" buttons of app.py.                                        *)
(*                                                                         *)
(* Every method decorated with @st.cache_data(ttl=...) is modelled as the  *)
(* wrapper the decorator builds around the method's body: a lookup keyed   *)
(* by the call's arguments in a store private to that method, the body run *)
(* on a miss, and every return value (None included) stored with the time  *)
(* of the store.  An entry is served while clock < stored + ttl.           *)
(*                                                                         *)
(* The stores are shared by all sessions of the application.  A call that  *)
(* asks the provider (ticker.history, ticker.info) waits for the answer,   *)
(* and a call that reaches time.sleep (the backoff of get_stock_data, the  *)
(* pause of get_multiple_stocks) stops there; meanwhile the other sessions *)
(* act: they call the loader and clear the stores.  A call looks  *)
(* up and writes the store its method has when the call starts;            *)
(* st.cache_data.clear() discards the stores of all methods, so what a     *)
(* call in progress writes after a clear goes to a discarded store and is  *)
(* not seen again, while the calls it makes from then on use the new ones. *)
(*                                                                         *)
(* Time is counted in ticks of 0.1 s (the shortest sleep in the source).   *)
(*                                                                         *)
(* Numbers held in a DataFrame cell are tuples: <<>> is NaN, <<n>> an      *)
(* integer, <<n, d>> the quotient n/d (d = 0: an infinity).  Two cells     *)
(* that cannot be computed in integers are kept symbolically: a log return *)
(* is <<"log", close, previous close>> and a rolling standard deviation is *)
(* <<"std", the window of returns it is taken over>>.                      *)
(***************************************************************************)
EXTENDS Integers, Sequences, FiniteSets, TLC

VARIABLES
    now,         \* the wall clock, in ticks
    stockCache,  \* store of get_stock_data:      <<symbol, period, interval>> -> entry
    multiCache,  \* store of get_multiple_stocks: <<symbols, period>> -> entry
    indexCache,  \* store of get_market_indices:  <<>> -> entry
    infoCache,   \* store of get_company_info:    <<symbol>> -> entry
    newsCache,   \* store of get_stock_news:      <<symbol, count>> -> entry
    fetched,     \* history: per get_stock_data key, the provider's delivery of
                 \* the series stored under it (none when the store holds a
                 \* failure, or nothing since the stores were last cleared)
    calls,       \* number of operations started so far (bounded by MaxCalls)
    lastCall,    \* record of the operation that has just returned and of what
                 \* it returned, or a note that a call has gone to sleep
    dropped,     \* history: the entries the last st.cache_data.clear() removed
    clears,      \* the number of st.cache_data.clear() so far: the generation
                 \* of the stores in use
    running      \* the calls in progress, each waiting for the provider or
                 \* asleep in time.sleep: the number of the call (it was the
                 \* n-th operation started) -> what it carries on with

vars == <<now, stockCache, multiCache, indexCache, infoCache, newsCache,
          fetched, calls, lastCall, dropped, clears, running>>

---------------------------------------------------------------------------
(* Program constants *)

Second == 10               \* ticks per second: time.sleep(0.1) is one tick
max_retries == 3
retry_delay == 1           \* seconds
StockTTL == 300            \* seconds
MultiTTL == 300
IndexTTL == 600
InfoTTL == 3600
NewsTTL == 1800
window == 20               \* rolling(window=20)

(* Bounds of the model *)

MaxCalls == 2              \* operations started per behaviour
MaxBatchCalls == 3         \* the same, where the stores are cleared (SpecClear)
MaxTime == 6100            \* ticks: the clock is not advanced beyond
MaxKindsTime == 42100      \* the same, where all stores are used (SpecKinds)
MaxBars == 22              \* rows of a series handed to _clean_stock_data
MaxRunning == 2            \* calls in progress at a time
MaxWaiting == 1            \* the same, where indices or profiles are loaded

---------------------------------------------------------------------------
(* Cells, rows and frames *)

NaN == <<>>
IsNaN(v) == Len(v) = 0
Num(n) == <<n>>
Val(v) == v[1]

\* numpy float division: 0/0 is NaN, x/0 is an infinity with the sign of x
\* (the cell <<1, 0>> or <<-1, 0>>), anything else the quotient n/d
Div(n, d) ==
    IF d # 0 THEN <<n, d>>
    ELSE IF n = 0 THEN NaN
    ELSE IF n > 0 THEN <<1, 0>> ELSE <<0 - 1, 0>>

\* a cell holding inf or -inf
IsInf(v) == Len(v) = 2 /\ v[2] = 0

None == [type |-> "None"]
DataFrame(rows) == [type |-> "DataFrame", rows |-> rows]
IsNone(v) == v.type = "None"

Columns == {"Open", "High", "Low", "Close", "Volume"}

Bar(o, h, l, c, v) ==
    [Open |-> Num(o), High |-> Num(h), Low |-> Num(l), Close |-> Num(c),
     Volume |-> Num(v)]

\* data.dropna(how='all')
DropNaAll(rows) ==
    LET keep(r) == \E c \in Columns : ~IsNaN(r[c])
    IN  SelectSeq(rows, keep)

\* data.fillna(method='ffill'): a missing cell takes the last value above it
RECURSIVE FFillUpTo(_, _)
FFillUpTo(rows, i) ==
    IF i = 0 THEN <<>>
    ELSE LET above == FFillUpTo(rows, i - 1)
             cell(c) == IF IsNaN(rows[i][c]) /\ i > 1 THEN above[i - 1][c]
                        ELSE rows[i][c]
         IN  Append(above, [c \in Columns |-> cell(c)])

FFill(rows) == FFillUpTo(rows, Len(rows))

\* Series.pct_change(): close / previous close - 1
PctChange(rows, i) ==
    IF i = 1 \/ IsNaN(rows[i].Close) \/ IsNaN(rows[i - 1].Close) THEN NaN
    ELSE Div(Val(rows[i].Close) - Val(rows[i - 1].Close), Val(rows[i - 1].Close))

\* np.log of the ratio c/p: NaN for a ratio that is NaN (0/0) or negative
\* (-inf included); otherwise the cell <<"log", c, p>>, which is -inf for a
\* ratio of 0 and inf for a ratio of inf
Log(c, p) ==
    IF p = 0 /\ c <= 0 THEN NaN
    ELSE IF (c < 0 /\ p > 0) \/ (c > 0 /\ p < 0) THEN NaN
    ELSE <<"log", c, p>>

\* np.log(close / close.shift(1))
LogReturn(rows, i) ==
    IF i = 1 \/ IsNaN(rows[i].Close) \/ IsNaN(rows[i - 1].Close) THEN NaN
    ELSE Log(Val(rows[i].Close), Val(rows[i - 1].Close))

\* Series.rolling(window=w) at row i looks at the w rows ending at i, fewer
\* when the series starts inside the window
WindowStart(i, w) == IF i >= w THEN i - w + 1 ELSE 1

\* rolling takes an infinite value for a missing one: an observation is a
\* cell that is neither NaN nor infinite
Observed(v) == ~IsNaN(v) /\ ~IsInf(v)

\* variant of RollingDefined: as with min_periods=1, a window cut short by
\* the start of the series counts
RollingDefinedShort(col, i, w) ==
    \A j \in WindowStart(i, w)..i : Observed(col[j])

\* the result is NaN unless the window holds w observations (min_periods
\* defaults to w)
RollingDefined(col, i, w) ==
    /\ i >= w
    /\ \A j \in WindowStart(i, w)..i : Observed(col[j])

RECURSIVE SumFrom(_, _, _)
SumFrom(col, lo, hi) ==
    IF lo > hi THEN 0 ELSE Val(col[hi]) + SumFrom(col, lo, hi - 1)

MinOf(S) == CHOOSE m \in S : \A x \in S : m <= x
MaxOf(S) == CHOOSE m \in S : \A x \in S : m >= x

RollingStd(col, i, w) ==
    IF RollingDefined(col, i, w)
    THEN <<"std", [j \in 1..(i - WindowStart(i, w) + 1) |-> col[WindowStart(i, w) + j - 1]]>>
    ELSE NaN

RollingMean(col, i, w) ==
    IF RollingDefined(col, i, w)
    THEN <<SumFrom(col, WindowStart(i, w), i), i - WindowStart(i, w) + 1>>
    ELSE NaN

RollingMin(col, i, w) ==
    IF RollingDefined(col, i, w)
    THEN Num(MinOf({Val(col[j]) : j \in WindowStart(i, w)..i}))
    ELSE NaN

RollingMax(col, i, w) ==
    IF RollingDefined(col, i, w)
    THEN Num(MaxOf({Val(col[j]) : j \in WindowStart(i, w)..i}))
    ELSE NaN

Column(rows, c) == [i \in 1..Len(rows) |-> rows[i][c]]

\* data['Volume'] / data['Volume_MA'], the mean being sum/w
VolumeRatio(volume, mean) ==
    IF IsNaN(volume) \/ IsNaN(mean) THEN NaN
    ELSE Div(Val(volume) * mean[2], mean[1])

PriceRange(row) ==
    IF IsNaN(row.High) \/ IsNaN(row.Low) THEN NaN
    ELSE Num(Val(row.High) - Val(row.Low))

PriceRangePct(row) ==
    IF IsNaN(PriceRange(row)) \/ IsNaN(row.Close) THEN NaN
    ELSE Div(Val(PriceRange(row)) * 100, Val(row.Close))

\* DataLoader._clean_stock_data
CleanStockData(data, symbol) ==
    LET rows    == FFill(DropNaAll(data.rows))
        n       == Len(rows)
        returns == [i \in 1..n |-> PctChange(rows, i)]
        volMA   == [i \in 1..n |-> RollingMean(Column(rows, "Volume"), i, window)]
        out(i)  ==
            [Open            |-> rows[i].Open,
             High            |-> rows[i].High,
             Low             |-> rows[i].Low,
             Close           |-> rows[i].Close,
             Volume          |-> rows[i].Volume,
             Symbol          |-> symbol,
             Returns         |-> returns[i],
             Log_Returns     |-> LogReturn(rows, i),
             Volatility      |-> RollingStd(returns, i, window),
             Price_Range     |-> PriceRange(rows[i]),
             Price_Range_Pct |-> PriceRangePct(rows[i]),
             Volume_MA       |-> volMA[i],
             Volume_Ratio    |-> VolumeRatio(rows[i].Volume, volMA[i]),
             Support         |-> RollingMin(Column(rows, "Low"), i, window),
             Resistance      |-> RollingMax(Column(rows, "High"), i, window)]
    IN  DataFrame([i \in 1..n |-> out(i)])

---------------------------------------------------------------------------
(* The stores of st.cache_data *)

EmptyCache == [k \in {} |-> None]

\* an entry: epoch is the generation of the store it was written to
Entry(value, messages, t, epoch) ==
    [value |-> value, messages |-> messages, stored |-> t, epoch |-> epoch]

\* variants of Fresh: ttl taken as ticks instead of seconds; no expiry at all
FreshUnscaled(cache, key, ttl, t) ==
    /\ key \in DOMAIN cache
    /\ t < cache[key].stored + ttl

FreshForever(cache, key, ttl, t) == key \in DOMAIN cache

\* an entry is served while the clock is before stored + ttl
Fresh(cache, key, ttl, t) ==
    /\ key \in DOMAIN cache
    /\ t < cache[key].stored + ttl * Second

\* what a lookup finds under the key, fresh or not
Found(cache, key, t) ==
    IF key \in DOMAIN cache
    THEN [present |-> TRUE, age |-> t - cache[key].stored, value |-> cache[key].value,
          epoch |-> cache[key].epoch]
    ELSE [present |-> FALSE]

Put(cache, key, entry) ==
    [k \in DOMAIN cache \cup {key} |-> IF k = key THEN entry ELSE cache[k]]

RECURSIVE SumSeq(_)
SumSeq(s) == IF Len(s) = 0 THEN 0 ELSE Head(s) + SumSeq(Tail(s))

---------------------------------------------------------------------------
(* The provider: yf.Ticker(symbol).history(period, interval).  A behaviour  *)
(* [fails, data] raises on its first `fails` calls and answers `data` from  *)
(* then on.                                                                 *)

Raises == [raises |-> TRUE]
Answers(data) == [raises |-> FALSE, data |-> data]

ProviderHistory(prov, n) == IF n <= prov.fails THEN Raises ELSE Answers(prov.data)

---------------------------------------------------------------------------
(* DataLoader.get_stock_data *)

Warning(text, arg) == [level |-> "warning", text |-> text, arg |-> arg]
Error(text, arg) == [level |-> "error", text |-> text, arg |-> arg]

\* variant of RetryAllowed: the last attempt is not recognised
RetryAlways(attempt) == attempt < max_retries

\* attempt < self.max_retries - 1
RetryAllowed(attempt) == attempt < max_retries - 1

\* variant of Backoff: the same delay before every retry
BackoffConstant(attempt) == retry_delay

\* self.retry_delay * (attempt + 1), in seconds
Backoff(attempt) == retry_delay * (attempt + 1)

\* the for loop of the body from `attempt` (0-based) on; sleeps and msgs are
\* the delays slept and the messages shown so far
RECURSIVE GetStockDataLoop(_, _, _, _, _)
GetStockDataLoop(symbol, prov, attempt, sleeps, msgs) ==
    IF attempt >= max_retries
    THEN [value |-> None, attempts |-> attempt, sleeps |-> sleeps, messages |-> msgs]
    ELSE LET resp == ProviderHistory(prov, attempt + 1)
         IN  IF resp.raises
             THEN IF RetryAllowed(attempt)
                  THEN GetStockDataLoop(symbol, prov, attempt + 1,
                           Append(sleeps, Backoff(attempt)),
                           Append(msgs, Warning("attempt failed, retrying", attempt + 1)))
                  ELSE [value    |-> None,
                        attempts |-> attempt + 1,
                        sleeps   |-> sleeps,
                        messages |-> Append(msgs, Error("Failed to fetch data after attempts",
                                                        max_retries))]
             ELSE IF Len(resp.data.rows) = 0
                  THEN [value    |-> None,
                        attempts |-> attempt + 1,
                        sleeps   |-> sleeps,
                        messages |-> Append(msgs, Error("No data found for symbol", symbol))]
                  ELSE [value    |-> CleanStockData(resp.data, symbol),
                        attempts |-> attempt + 1,
                        sleeps   |-> sleeps,
                        messages |-> msgs]

\* variant of GetStockDataBody: an empty answer is retried like a failure
GetStockDataBodyRetryEmpty(symbol, period, interval, prov) ==
    GetStockDataLoop(symbol,
                     IF Len(prov.data.rows) = 0
                     THEN [fails |-> max_retries, data |-> prov.data] ELSE prov,
                     0, <<>>, <<>>)

GetStockDataBody(symbol, period, interval, prov) ==
    GetStockDataLoop(symbol, prov, 0, <<>>, <<>>)

NoFetch == [known |-> FALSE]
Fetch(series, t, attempts, epoch) ==
    [known |-> TRUE, series |-> series, at |-> t, attempts |-> attempts, epoch |-> epoch]
Prior(hist, key) == IF key \in DOMAIN hist THEN hist[key] ELSE NoFetch

\* A call of the decorated get_stock_data.  st = [cache, fetched, now, epoch]
\* is the store in use, the history, the clock and the generation of the
\* stores at the moment the call runs.  The call is either done, with its
\* record and the store as it leaves it, or in progress, with the moment it
\* goes on and what it carries on with: waiting for the provider's answer to
\* ticker.history, which takes no time on the clock, or asleep at time.sleep
\* in the except branch.  The course of the retry loop depends on nothing
\* but the provider, so b, what the body gives, is worked out when the call
\* starts; the call then makes its attempts and sleeps b.sleeps one at a
\* time, k being the attempt it is in, and stores b.value when the last
\* answer is there.
StockHit(st, key) ==
    [done |-> TRUE,
     st   |-> st,
     rec  |-> [op       |-> "get_stock_data",
               args     |-> key,
               start    |-> st.now,
               epoch    |-> st.epoch,
               hit      |-> TRUE,
               result   |-> st.cache[key].value,
               attempts |-> 0,
               sleeps   |-> <<>>,
               messages |-> st.cache[key].messages,
               found    |-> Found(st.cache, key, st.now),
               prior    |-> Prior(st.fetched, key),
               delivery |-> Prior(st.fetched, key)]]

\* history: the provider's delivery of what the body returns at t
Delivery(c, b, t) ==
    IF IsNone(b.value) THEN NoFetch ELSE Fetch(b.value, t, b.attempts, c.epoch)

\* the store the call started with is still the one in use
Live(st, c) == c.epoch = st.epoch

\* the body has returned: its value is written under the key to the store
\* the call started with, whatever that holds by now, and handed to the
\* caller
StockMiss(st, c, b) ==
    [done |-> TRUE,
     st   |-> IF Live(st, c)
              THEN [st EXCEPT
                      !.cache   = Put(st.cache, c.key,
                                      Entry(b.value, b.messages, st.now, c.epoch)),
                      !.fetched = Put(st.fetched, c.key, Delivery(c, b, st.now))]
              ELSE st,
     rec  |-> [op       |-> "get_stock_data",
               args     |-> c.key,
               start    |-> c.start,
               epoch    |-> c.epoch,
               hit      |-> FALSE,
               result   |-> b.value,
               attempts |-> b.attempts,
               sleeps   |-> b.sleeps,
               messages |-> b.messages,
               prov     |-> c.prov,
               found    |-> c.found,
               prior    |-> c.prior,
               delivery |-> Delivery(c, b, st.now)]]

\* ticker.history(...) of line 44: the call waits for the provider's answer
\* to its k-th attempt
StockRequest(st, c, b, k) ==
    [done  |-> FALSE,
     st    |-> st,
     wake  |-> st.now,
     inner |-> [c |-> c, b |-> b, k |-> k, phase |-> "request"]]

\* time.sleep(...) of line 58: the call sleeps the delay after its k-th
\* attempt
StockSleep(st, c, b, k) ==
    [done  |-> FALSE,
     st    |-> st,
     wake  |-> st.now + b.sleeps[k] * Second,
     inner |-> [c |-> c, b |-> b, k |-> k, phase |-> "sleep"]]

StockCall(st, key, prov) ==
    IF Fresh(st.cache, key, StockTTL, st.now)
    THEN StockHit(st, key)
    ELSE StockRequest(st,
                      [key |-> key, prov |-> prov, start |-> st.now, epoch |-> st.epoch,
                       found |-> Found(st.cache, key, st.now),
                       prior |-> Prior(st.fetched, key)],
                      GetStockDataBody(key[1], key[2], key[3], prov),
                      1)

\* the call goes on: after a sleep it makes its next attempt; when the
\* provider has dealt with attempt k, the attempt has failed and the call
\* sleeps, or the body returns
StockWake(st, inner) ==
    IF inner.phase = "sleep"
    THEN StockRequest(st, inner.c, inner.b, inner.k + 1)
    ELSE IF inner.k <= Len(inner.b.sleeps)
         THEN StockSleep(st, inner.c, inner.b, inner.k)
         ELSE StockMiss(st, inner.c, inner.b)

---------------------------------------------------------------------------
(* DataLoader.get_multiple_stocks *)

DefaultInterval == "1d"

\* variant of Loaded: the test for None is left out
LoadedAlways(data) == TRUE

\* `data is not None`
Loaded(data) == ~IsNone(data)

\* acc = [map, failed, calls, origin]: the stock_data dict, the
\* failed_symbols list, the records of the get_stock_data calls made and,
\* as history, the provider's delivery of each series put in the dict.
\* One pass of the loop body down to the sleep: r is the get_stock_data call
\* made for symbol, now done.
GetMultipleStocksStep(acc, symbol, r) ==
    [map    |-> IF Loaded(r.rec.result) THEN Put(acc.map, symbol, r.rec.result)
                ELSE acc.map,
     failed |-> IF Loaded(r.rec.result) THEN acc.failed
                ELSE Append(acc.failed, symbol),
     calls  |-> Append(acc.calls, r.rec),
     origin |-> IF Loaded(r.rec.result)
                THEN Put(acc.origin, symbol, r.rec.delivery)
                ELSE acc.origin]

\* variant of NextSymbol: the loop stops at the first symbol that fails
NextSymbolAbort(symbols, i, acc) ==
    IF Len(acc.failed) > 0 THEN Len(symbols) + 1 ELSE i + 1

\* for i, symbol in enumerate(symbols): the position that follows position i
NextSymbol(symbols, i, acc) == i + 1

\* what the body hands back to its caller
MultiReturn(map, failed) == [stock_data |-> map]

\* after the loop: the warning about failed_symbols and the return
GetMultipleStocksEnd(acc) ==
    [value    |-> MultiReturn(acc.map, acc.failed),
     map      |-> acc.map,
     failed   |-> acc.failed,
     calls    |-> acc.calls,
     origin   |-> acc.origin,
     messages |-> IF Len(acc.failed) > 0
                  THEN <<Warning("Failed to load data for", acc.failed)>>
                  ELSE <<>>]

\* an entry of the store of get_multiple_stocks or get_market_indices, with
\* the history of its series
MultiEntry(value, messages, t, origin, epoch) ==
    [value |-> value, messages |-> messages, stored |-> t, origin |-> origin,
     epoch |-> epoch]

\* A call of the decorated get_multiple_stocks; st as in StockCall, mc its own
\* store.  The call is done, or in progress: inside the get_stock_data call
\* it made for symbol i (phase "fetch"), or at time.sleep(0.1) after symbol i
\* (phase "pause").
MultiHit(st, mc, key) ==
    [done |-> TRUE,
     st   |-> st,
     mc   |-> mc,
     rec  |-> [op       |-> "get_multiple_stocks",
               args     |-> key,
               start    |-> st.now,
               epoch    |-> st.epoch,
               hit      |-> TRUE,
               result   |-> mc[key].value,
               calls    |-> <<>>,
               map      |-> EmptyCache,
               failed   |-> <<>>,
               origin   |-> mc[key].origin,
               found    |-> Found(mc, key, st.now),
               messages |-> mc[key].messages]]

\* the body has returned b: it is written under the key to the store the
\* call started with and handed over
MultiMiss(st, mc, c, b) ==
    [done |-> TRUE,
     st   |-> st,
     mc   |-> IF Live(st, c)
              THEN Put(mc, c.key, MultiEntry(b.value, b.messages, st.now, b.origin, c.epoch))
              ELSE mc,
     rec  |-> [op       |-> "get_multiple_stocks",
               args     |-> c.key,
               start    |-> c.start,
               epoch    |-> c.epoch,
               hit      |-> FALSE,
               result   |-> b.value,
               calls    |-> b.calls,
               map      |-> b.map,
               failed   |-> b.failed,
               origin   |-> b.origin,
               found    |-> c.found,
               messages |-> b.messages]]

\* r is the get_stock_data call for symbol i: in progress, and the batch with
\* it;
\* or done, and the batch goes through the rest of the pass to time.sleep(0.1)
MultiFetched(c, i, acc, r) ==
    IF r.done
    THEN [done  |-> FALSE,
          st    |-> r.st,
          wake  |-> r.st.now + 1,
          frame |-> [c |-> c, i |-> i, phase |-> "pause",
                     acc |-> GetMultipleStocksStep(acc, c.key[1][i], r)]]
    ELSE [done  |-> FALSE,
          st    |-> r.st,
          wake  |-> r.wake,
          frame |-> [c |-> c, i |-> i, phase |-> "fetch", acc |-> acc,
                     inner |-> r.inner]]

\* the loop at position i: beyond the list the body returns, else it calls
\* get_stock_data(symbol, period)
GetMultipleStocksLoop(st, mc, c, i, acc) ==
    IF i > Len(c.key[1])
    THEN MultiMiss(st, mc, c, GetMultipleStocksEnd(acc))
    ELSE MultiFetched(c, i, acc,
                      StockCall(st, <<c.key[1][i], c.key[2], DefaultInterval>>, c.provs[i]))

GetMultipleStocksBody(st, mc, c) ==
    GetMultipleStocksLoop(st, mc, c, 1,
        [map |-> EmptyCache, failed |-> <<>>, calls |-> <<>>, origin |-> EmptyCache])

MultiCall(st, mc, symbols, period, provs) ==
    IF Fresh(mc, <<symbols, period>>, MultiTTL, st.now)
    THEN MultiHit(st, mc, <<symbols, period>>)
    ELSE GetMultipleStocksBody(st, mc,
             [key |-> <<symbols, period>>, provs |-> provs, start |-> st.now,
              epoch |-> st.epoch, found |-> Found(mc, <<symbols, period>>, st.now)])

\* the call goes on: from the pause to the next symbol, inside a
\* get_stock_data call with that call
MultiWake(st, mc, f) ==
    IF f.phase = "pause"
    THEN GetMultipleStocksLoop(st, mc, f.c, NextSymbol(f.c.key[1], f.i, f.acc), f.acc)
    ELSE MultiFetched(f.c, f.i, f.acc, StockWake(st, f.inner))

---------------------------------------------------------------------------
(* DataLoader.get_market_indices *)

\* the `indices` dict, in insertion order
IndexNames == <<"S&P 500", "NASDAQ", "DOW JONES", "Russell 2000", "VIX">>
IndexSymbols == <<"^GSPC", "^IXIC", "^DJI", "^RUT", "^VIX">>

IndexPeriod == "5d"
MinBars == 2

\* float arithmetic on cells; NaN propagates
Sub(a, b) == IF IsNaN(a) \/ IsNaN(b) THEN NaN ELSE Num(Val(a) - Val(b))

\* (change / previous_price) * 100
ChangePct(change, previous) ==
    IF IsNaN(change) \/ IsNaN(previous) THEN NaN
    ELSE Div(Val(change) * 100, Val(previous))

Present(col) == {Val(col[i]) : i \in {j \in DOMAIN col : ~IsNaN(col[j])}}

\* Series.max() / min() / mean() skip NaN and give NaN when nothing is left
ColMax(col) == IF Present(col) = {} THEN NaN ELSE Num(MaxOf(Present(col)))
ColMin(col) == IF Present(col) = {} THEN NaN ELSE Num(MinOf(Present(col)))

RECURSIVE SumPresent(_, _)
SumPresent(col, i) ==
    IF i = 0 THEN 0
    ELSE (IF IsNaN(col[i]) THEN 0 ELSE Val(col[i])) + SumPresent(col, i - 1)

ColMean(col) ==
    LET n == Cardinality({j \in DOMAIN col : ~IsNaN(col[j])})
    IN  IF n = 0 THEN NaN ELSE <<SumPresent(col, Len(col)), n>>

\* `data is not None and len(data) >= 2`
Sufficient(data) == Loaded(data) /\ Len(data.rows) >= MinBars

\* variant of Change: the operands swapped
ChangeReversed(current, previous) == Sub(previous, current)

\* current_price - previous_price
Change(current, previous) == Sub(current, previous)

Snapshot(symbol, data) ==
    LET n        == Len(data.rows)
        current  == data.rows[n].Close
        previous == data.rows[n - 1].Close
        change   == Change(current, previous)
    IN  [symbol     |-> symbol,
         current    |-> current,
         previous   |-> previous,
         change     |-> change,
         change_pct |-> ChangePct(change, previous),
         week_high  |-> ColMax(Column(data.rows, "High")),
         week_low   |-> ColMin(Column(data.rows, "Low")),
         avg_volume |-> ColMean(Column(data.rows, "Volume")),
         data       |-> data]

\* acc = [index_data, calls, messages, origin], origin being, as history,
\* the provider's delivery of the series of each entry.  One pass of the loop
\* body: r is the get_stock_data call made for the index, now done.
GetMarketIndicesStep(acc, name, symbol, r) ==
    [index_data |-> IF Sufficient(r.rec.result)
                    THEN Put(acc.index_data, name, Snapshot(symbol, r.rec.result))
                    ELSE acc.index_data,
     calls      |-> Append(acc.calls, r.rec),
     origin     |-> IF Sufficient(r.rec.result)
                    THEN Put(acc.origin, name, r.rec.delivery)
                    ELSE acc.origin,
     messages   |-> IF Sufficient(r.rec.result) THEN acc.messages
                    ELSE Append(acc.messages, Warning("Insufficient data for", name))]

\* A call of the decorated get_market_indices; ic is its own store.  The
\* call is done, or in progress inside the get_stock_data call it made for
\* index i.
IndexHit(st, ic, key) ==
    [done |-> TRUE,
     st   |-> st,
     ic   |-> ic,
     rec  |-> [op       |-> "get_market_indices",
               args     |-> key,
               start    |-> st.now,
               epoch    |-> st.epoch,
               hit      |-> TRUE,
               result   |-> ic[key].value,
               calls    |-> <<>>,
               origin   |-> ic[key].origin,
               found    |-> Found(ic, key, st.now),
               messages |-> ic[key].messages]]

\* the body has returned index_data: it is written to the store the call
\* started with and handed over
IndexMiss(st, ic, c, acc) ==
    [done |-> TRUE,
     st   |-> st,
     ic   |-> IF Live(st, c)
              THEN Put(ic, c.key, MultiEntry(acc.index_data, acc.messages, st.now,
                                             acc.origin, c.epoch))
              ELSE ic,
     rec  |-> [op       |-> "get_market_indices",
               args     |-> c.key,
               start    |-> c.start,
               epoch    |-> c.epoch,
               hit      |-> FALSE,
               result   |-> acc.index_data,
               calls    |-> acc.calls,
               origin   |-> acc.origin,
               found    |-> c.found,
               messages |-> acc.messages]]

IndexAsleep(c, i, acc, r) ==
    [done  |-> FALSE,
     st    |-> r.st,
     wake  |-> r.wake,
     frame |-> [c |-> c, i |-> i, acc |-> acc, inner |-> r.inner]]

\* the loop at index i: past the last index the body returns; else it calls
\* get_stock_data(symbol, "5d", "1d"), and r is that call
RECURSIVE GetMarketIndicesLoop(_, _, _, _, _)
RECURSIVE IndexFetched(_, _, _, _, _)
IndexFetched(ic, c, i, acc, r) ==
    IF r.done
    THEN GetMarketIndicesLoop(r.st, ic, c, i + 1,
             GetMarketIndicesStep(acc, IndexNames[i], IndexSymbols[i], r))
    ELSE IndexAsleep(c, i, acc, r)

GetMarketIndicesLoop(st, ic, c, i, acc) ==
    IF i > Len(IndexNames)
    THEN IndexMiss(st, ic, c, acc)
    ELSE IndexFetched(ic, c, i, acc,
                      StockCall(st, <<IndexSymbols[i], IndexPeriod, "1d">>, c.provs[i]))

GetMarketIndicesBody(st, ic, c) ==
    GetMarketIndicesLoop(st, ic, c, 1,
        [index_data |-> EmptyCache, calls |-> <<>>, messages |-> <<>>,
         origin |-> EmptyCache])

IndexCall(st, ic, provs) ==
    IF Fresh(ic, <<>>, IndexTTL, st.now)
    THEN IndexHit(st, ic, <<>>)
    ELSE GetMarketIndicesBody(st, ic,
             [key |-> <<>>, provs |-> provs, start |-> st.now, epoch |-> st.epoch,
              found |-> Found(ic, <<>>, st.now)])

\* the call goes on inside the get_stock_data call it made for index f.i
IndexWake(st, ic, f) == IndexFetched(ic, f.c, f.i, f.acc, StockWake(st, f.inner))

---------------------------------------------------------------------------
(* DataLoader.get_company_info *)

\* <<field of key_metrics, key of ticker.info>>, defaulting to 'N/A'
TextFields ==
    {<<"name", "longName">>, <<"sector", "sector">>, <<"industry", "industry">>,
     <<"country", "country">>, <<"website", "website">>,
     <<"recommendation", "recommendationKey">>,
     <<"business_summary", "longBusinessSummary">>}

\* <<field of key_metrics, key of ticker.info>>, defaulting to 0
NumberFields ==
    {<<"market_cap", "marketCap">>, <<"enterprise_value", "enterpriseValue">>,
     <<"pe_ratio", "trailingPE">>, <<"forward_pe", "forwardPE">>,
     <<"peg_ratio", "pegRatio">>, <<"price_to_book", "priceToBook">>,
     <<"price_to_sales", "priceToSalesTrailing12Months">>,
     <<"dividend_yield", "dividendYield">>, <<"dividend_rate", "dividendRate">>,
     <<"payout_ratio", "payoutRatio">>, <<"beta", "beta">>, <<"eps", "trailingEps">>,
     <<"revenue", "totalRevenue">>, <<"profit_margin", "profitMargins">>,
     <<"operating_margin", "operatingMargins">>,
     <<"return_on_equity", "returnOnEquity">>,
     <<"return_on_assets", "returnOnAssets">>, <<"volume", "volume">>,
     <<"avg_volume", "averageVolume">>, <<"52_week_high", "fiftyTwoWeekHigh">>,
     <<"52_week_low", "fiftyTwoWeekLow">>, <<"target_price", "targetMeanPrice">>,
     <<"num_analyst_opinions", "numberOfAnalystOpinions">>}

TextDefault == "N/A"
NumberDefault == 0

\* info.get(key, default)
Get(info, key, default) == IF key \in DOMAIN info THEN info[key] ELSE default

InfoKey(fields, f) == (CHOOSE e \in fields : e[1] = f)[2]

KeyMetrics(symbol, info) ==
    [type    |-> "dict",
     symbol  |-> symbol,
     text    |-> [f \in {e[1] : e \in TextFields} |->
                     Get(info, InfoKey(TextFields, f), TextDefault)],
     numbers |-> [f \in {e[1] : e \in NumberFields} |->
                     Get(info, InfoKey(NumberFields, f), NumberDefault)]]

\* the body: prov is what ticker.info does, raise or answer a dict
GetCompanyInfoBody(symbol, prov) ==
    IF prov.raises
    THEN [value |-> None, messages |-> <<Error("Error fetching company info for", symbol)>>]
    ELSE [value |-> KeyMetrics(symbol, prov.data), messages |-> <<>>]

\* A call of the decorated get_company_info; fc is its store, t the clock,
\* epoch the generation of the stores.  The call is done, or waits for the
\* provider's answer to `ticker.info`.
InfoHit(fc, t, epoch, key) ==
    [done |-> TRUE,
     fc   |-> fc,
     rec  |-> [op |-> "get_company_info", args |-> key, start |-> t,
               epoch |-> epoch, hit |-> TRUE, result |-> fc[key].value,
               found |-> Found(fc, key, t), messages |-> fc[key].messages]]

\* the body has returned b: it is written to the store the call started with
\* and handed over
InfoMiss(fc, t, epoch, c, b) ==
    [done |-> TRUE,
     fc   |-> IF c.epoch = epoch
              THEN Put(fc, c.key, Entry(b.value, b.messages, t, c.epoch))
              ELSE fc,
     rec  |-> [op |-> "get_company_info", args |-> c.key, start |-> c.start,
               epoch |-> c.epoch, hit |-> FALSE, result |-> b.value, prov |-> c.prov,
               found |-> c.found, messages |-> b.messages]]

\* a hit, or a miss: the body runs up to `info = ticker.info` of line 217,
\* where the call waits for the provider
InfoCall(fc, t, epoch, symbol, prov) ==
    IF Fresh(fc, <<symbol>>, InfoTTL, t)
    THEN InfoHit(fc, t, epoch, <<symbol>>)
    ELSE [done  |-> FALSE,
          fc    |-> fc,
          wake  |-> t,
          frame |-> [c |-> [key |-> <<symbol>>, prov |-> prov, start |-> t,
                            epoch |-> epoch, found |-> Found(fc, <<symbol>>, t)]]]

\* the provider has answered, or raised
InfoWake(fc, t, epoch, f) ==
    InfoMiss(fc, t, epoch, f.c, GetCompanyInfoBody(f.c.key[1], f.c.prov))

---------------------------------------------------------------------------
(* DataLoader.get_stock_news *)

\* <<title, hours before the call it is dated, source>>
SampleNews ==
    <<[title |-> "Reports Strong Quarterly Earnings", age |-> 2, source |-> "Financial Times"],
      [title |-> "Announces New Product Launch", age |-> 8, source |-> "Reuters"],
      [title |-> "Analyst Upgrades Rating", age |-> 24, source |-> "Bloomberg"]>>

\* sample_news[:count]
Take(items, count) ==
    LET n == Len(items)
        k == IF count >= 0 THEN (IF count < n THEN count ELSE n)
             ELSE (IF n + count > 0 THEN n + count ELSE 0)
    IN  SubSeq(items, 1, k)

GetStockNewsBody(symbol, count, t) ==
    Take([i \in 1..Len(SampleNews) |->
             [title        |-> <<symbol, SampleNews[i].title>>,
              published_at |-> t - SampleNews[i].age * 3600 * Second,
              source       |-> SampleNews[i].source]],
         count)

\* One call of the decorated get_stock_news; nc is its store, t the clock,
\* epoch the generation of the store.
NewsCall(nc, t, epoch, symbol, count) ==
    LET key == <<symbol, count>>
    IN  IF Fresh(nc, key, NewsTTL, t)
        THEN [nc  |-> nc,
              rec |-> [op |-> "get_stock_news", args |-> key, start |-> t,
                       epoch |-> epoch, hit |-> TRUE, result |-> nc[key].value,
                       found |-> Found(nc, key, t), messages |-> <<>>]]
        ELSE LET v == GetStockNewsBody(symbol, count, t)
             IN  [nc  |-> Put(nc, key, Entry(v, <<>>, t, epoch)),
                  rec |-> [op |-> "get_stock_news", args |-> key, start |-> t,
                           epoch |-> epoch, hit |-> FALSE, result |-> v,
                           found |-> Found(nc, key, t), messages |-> <<>>]]

---------------------------------------------------------------------------
(* DataLoader.format_currency, DataLoader.format_number *)

\* A float argument is the decimal m * 10^e; not-a-number and None are the
\* values pd.isna() accepts.
Float(m, e) == [type |-> "float", m |-> m, e |-> e]
NotANumber == [type |-> "nan"]

\* pd.isna(value)
IsNA(value) == value.type \in {"None", "nan"}

\* value == 0
IsZero(value) == value.m = 0

\* value >= 1e<k>, for m below 10^9
AtLeast(value, k) ==
    IF value.m <= 0 THEN FALSE
    ELSE IF value.e >= k THEN TRUE
    ELSE k - value.e <= 9 /\ value.m >= 10 ^ (k - value.e)

Magnitude(n) == IF n < 0 THEN 0 - n ELSE n

RECURSIVE Log2(_)
Log2(n) == IF n < 2 THEN 0 ELSE 1 + Log2(n \div 2)

RECURSIVE DoublingsTo25(_)
DoublingsTo25(n) == IF n >= 25 THEN 0 ELSE 1 + DoublingsTo25(2 * n)

RECURSIVE Pow2Mod25(_)
Pow2Mod25(p) == IF p = 0 THEN 1 ELSE (2 * Pow2Mod25(p - 1)) % 25

\* The amount x = (2h + 1) / 200 lies half-way between h and h + 1
\* hundredths; ":.2f" rounds the binary double nearest to x.  With
\* 2^l <= (2h + 1) / 25 < 2^(l + 1), the double's 53-bit mantissa is
\* (2h + 1) * 2^(52 - l) / 25 rounded, so it lies above x when the remainder
\* of that division is more than half of 25, below x when it is less, and is
\* x itself when there is none (then the even neighbour is taken).
TieUp(h) ==
    LET n == 2 * h + 1
        l == IF n >= 25 THEN Log2(n \div 25) ELSE 0 - DoublingsTo25(n)
        r == ((n % 25) * Pow2Mod25(52 - l)) % 25
    IN  IF r = 0 THEN h % 2 = 1 ELSE r >= 13

\* n / d to the nearest integer as ":.2f" gives it, n >= 0
Nearest(n, d) ==
    IF 2 * (n % d) < d THEN n \div d
    ELSE IF 2 * (n % d) > d THEN (n \div d) + 1
    ELSE IF TieUp(n \div d) THEN (n \div d) + 1
    ELSE n \div d

\* the digits of f"{value / 1e<k>:.2f}" after the sign: |value| / 10^k in
\* hundredths (for |m| below 10^9 and |value| below 2^53)
Hundredths(value, k) ==
    IF value.e + 2 - k >= 0
    THEN Magnitude(value.m) * 10 ^ (value.e + 2 - k)
    ELSE IF k - value.e - 2 > 9 THEN 0
    ELSE Nearest(Magnitude(value.m), 10 ^ (k - value.e - 2))

\* the strings the formatters return: "N/A", or prefix, sign, amount with two
\* decimals and suffix
NotAvailable == [text |-> "N/A"]
Text(prefix, value, k, suffix) ==
    [prefix     |-> prefix,
     minus      |-> value.m < 0,
     hundredths |-> Hundredths(value, k),
     suffix     |-> suffix]

format_currency(value) ==
    IF IsNA(value) \/ IsZero(value) THEN NotAvailable
    ELSE IF AtLeast(value, 12) THEN Text("$", value, 12, "T")
    ELSE IF AtLeast(value, 9) THEN Text("$", value, 9, "B")
    ELSE IF AtLeast(value, 6) THEN Text("$", value, 6, "M")
    ELSE IF AtLeast(value, 3) THEN Text("$", value, 3, "K")
    ELSE Text("$", value, 0, "")

format_number(value) ==
    IF IsNA(value) \/ IsZero(value) THEN NotAvailable
    ELSE IF AtLeast(value, 9) THEN Text("", value, 9, "B")
    ELSE IF AtLeast(value, 6) THEN Text("", value, 6, "M")
    ELSE IF AtLeast(value, 3) THEN Text("", value, 3, "K")
    ELSE Text("", value, 0, "")

---------------------------------------------------------------------------
(* Inputs *)

\* what the provider may hold for a request: nothing, or one of two series
Frame2 == DataFrame(<<Bar(10, 12, 9, 11, 100), Bar(11, 13, 10, 12, 0)>>)
Frame3 == DataFrame(<<Bar(10, 12, 9, 11, 100),
                      [Open |-> NaN, High |-> NaN, Low |-> NaN, Close |-> NaN, Volume |-> NaN],
                      [Open |-> Num(12), High |-> Num(14), Low |-> Num(8), Close |-> NaN,
                       Volume |-> Num(50)]>>)
EmptyFrame == DataFrame(<<>>)

\* the provider raises 0 to max_retries times and then answers a series, or
\* answers at once, or after one failure, that it holds nothing
Providers ==
    [fails : 0..max_retries, data : {Frame2}]
        \cup [fails : {0}, data : {Frame3}]
        \cup [fails : {0, 1}, data : {EmptyFrame}]
\* the provider is up, or down
UpOrDown == {[fails |-> 0, data |-> Frame2], [fails |-> max_retries, data |-> EmptyFrame]}

Periods == {"1d", "5d", "1mo", "3mo", "6mo", "1y", "2y", "5y", "10y", "ytd", "max"}
Intervals == {"1m", "2m", "5m", "15m", "30m", "60m", "90m", "1h", "1d", "5d",
              "1wk", "1mo", "3mo"}

\* the argument triples get_stock_data is called with: one the docstring
\* allows, under every behaviour of the provider, and three it does not
StockArgs == {<<"AAPL", "1y", "1d">>, <<"", "1y", "1d">>,
              <<"AAPL", "bogus", "1d">>, <<"AAPL", "1y", "bogus">>}
StockInputs ==
    {<<key, prov>> \in StockArgs \X (Providers \cup UpOrDown) :
        key = <<"AAPL", "1y", "1d">> \/ prov \in UpOrDown}

TickSteps == {StockTTL * Second - 1, StockTTL * Second}

\* get_multiple_stocks: the lists of symbols asked for, and what the provider
\* does for one symbol: answer a series, or be down
SymbolLists == {<<>>, <<"AAPL", "BADSYM">>, <<"AAPL", "AAPL">>}
BatchProviders == {p \in Providers : p.fails \in {0, max_retries} /\ p.data = Frame2}
BatchArgs == {<<"AAPL", "1y", "1d">>}

\* get_market_indices: per index the provider is down, or answers one bar, two
\* bars, or (after one failure) three rows of which one is empty
OneBar == DataFrame(<<Bar(10, 12, 9, 11, 100)>>)
IndexProviders == {[fails |-> max_retries, data |-> EmptyFrame],
                   [fails |-> 0, data |-> OneBar],
                   [fails |-> 0, data |-> Frame2],
                   [fails |-> 1, data |-> Frame3]}
\* the provider answers two bars for every index, except the first, for
\* which it behaves as `other`; or it is down for every index but the last
IndexScenarios ==
    {[j \in 1..Len(IndexNames) |-> IF j = 1 THEN other ELSE [fails |-> 0, data |-> Frame2]] :
        other \in IndexProviders}
      \cup {[j \in 1..Len(IndexNames) |->
                IF j = Len(IndexNames) THEN [fails |-> 0, data |-> Frame2]
                ELSE [fails |-> max_retries, data |-> EmptyFrame]]}
IndexArgs == {<<IndexSymbols[1], IndexPeriod, "1d">>}

\* all stores together: few inputs each, and steps of the clock as long as
\* the time-to-live of the indices and of the company profile
KindProviders == UpOrDown
\* every index is answered at once but the second, which fails once
KindScenarios ==
    {[j \in 1..Len(IndexNames) |-> [fails |-> IF j = 2 THEN 1 ELSE 0, data |-> Frame2]]}
FullInfo == [longName |-> "Apple Inc.", sector |-> "Technology", marketCap |-> 3000,
             trailingPE |-> 30, dividendYield |-> 0, beta |-> 1]
SparseInfo == [longName |-> "Apple Inc.", marketCap |-> 0]
InfoProviders == {Raises, Answers(FullInfo), Answers(SparseInfo)}
KindTicks == {IndexTTL * Second, InfoTTL * Second}

\* get_company_info on its own: ticker.info raises, or answers a dict in which
\* each of three numeric keys is absent, zero or positive and the name is
\* absent or present; a second symbol is answered the full dict
InfoNumericKeys == {"marketCap", "trailingPE", "dividendYield"}
InfoDict(numbers, named) ==
    [k \in DOMAIN numbers \cup (IF named THEN {"longName"} ELSE {}) |->
        IF k = "longName" THEN "Apple Inc." ELSE numbers[k]]
InfoDicts ==
    {InfoDict(numbers, named) :
        numbers \in UNION {[S -> {0, 30}] : S \in SUBSET InfoNumericKeys},
        named \in BOOLEAN}
InfoResponses == {Raises} \cup {Answers(info) : info \in InfoDicts}
InfoInputs ==
    {<<"AAPL", prov>> : prov \in InfoResponses} \cup {<<"MSFT", Answers(FullInfo)>>}
InfoTicks == {InfoTTL * Second - 1, InfoTTL * Second}

\* the formatters: None, nan, zero, positive values from 0.001 up to beyond
\* 1e15 and negative ones; some lie half-way between two hundredths of
\* their unit (0.015, 1.005, 1.125, 1005, 1125000)
FormatValues ==
    {None, NotANumber, Float(0, 0)}
        \cup {Float(m, e) : m \in {1, 15, 25, 999, 1005, 1125, 1234}, e \in (0 - 3)..12}
        \cup {Float(m, e) : m \in {0 - 12, 0 - 15}, e \in (0 - 3)..4}

\* _clean_stock_data: series of n bars.  The close is flat, rising,
\* alternating, flat with a zero at bar 3, flat at zero, or changing sign
\* from bar to bar; the volume is 0 in the first `zeros` bars; bar `hole`
\* (if any) has no volume.
CloseModes == 1..6
CleanClose(i, mode) ==
    IF mode = 1 THEN 10
    ELSE IF mode = 2 THEN 10 + i
    ELSE IF mode = 3 THEN 10 + (i % 2)
    ELSE IF mode = 4 THEN (IF i = 3 THEN 0 ELSE 10)
    ELSE IF mode = 5 THEN 0
    ELSE (IF i % 2 = 0 THEN 5 ELSE 0 - 5)
CleanBar(i, mode, zeros, hole) ==
    LET c == CleanClose(i, mode)
    IN  [Open |-> Num(c), High |-> Num(c + 2), Low |-> Num(c - 1), Close |-> Num(c),
         Volume |-> IF i = hole THEN NaN ELSE IF i <= zeros THEN Num(0) ELSE Num(100)]
CleanFrame(n, mode, zeros, hole) ==
    DataFrame([i \in 1..n |-> CleanBar(i, mode, zeros, hole)])
CleanInputs ==
    {CleanFrame(n, mode, zeros, hole) :
        n \in {1, window - 1, window, window + 1, MaxBars}, mode \in CloseModes,
        zeros \in {0, 1, 2, window, MaxBars}, hole \in {0, 1, 3}}

---------------------------------------------------------------------------
(* Actions *)

\* the entries of one store, and of every store by method, for the history
Entries(cache) ==
    {[key |-> k, stored |-> cache[k].stored, epoch |-> cache[k].epoch] : k \in DOMAIN cache}

AllEntries ==
    [get_stock_data      |-> Entries(stockCache),
     get_multiple_stocks |-> Entries(multiCache),
     get_market_indices  |-> Entries(indexCache),
     get_company_info    |-> Entries(infoCache),
     get_stock_news      |-> Entries(newsCache)]

Init ==
    /\ now = 0
    /\ stockCache = EmptyCache
    /\ multiCache = EmptyCache
    /\ indexCache = EmptyCache
    /\ infoCache = EmptyCache
    /\ newsCache = EmptyCache
    /\ fetched = EmptyCache
    /\ calls = 0
    /\ lastCall = [op |-> "none"]
    /\ dropped = AllEntries
    /\ clears = 0
    /\ running = EmptyCache

\* the stock store in use, its history, the clock at t and the generation
Stock(t) == [cache |-> stockCache, fetched |-> fetched, now |-> t, epoch |-> clears]

\* a call has stopped, to wait for the provider or to sleep
Asleep(id, op, t) == [op |-> "sleep", call |-> id, of |-> op, start |-> t]

Drop(cache, key) == [k \in DOMAIN cache \ {key} |-> cache[k]]

\* Each session of the application runs its script in a thread of its own
\* and all share the stores, so while one call waits or sleeps the others
\* act.  A call goes on when the provider has answered (at once, by the
\* clock) or its delay is over: the one that is to go on first goes first,
\* and the clock does not pass the moment a call is to go on.
Sleeping(id, op) ==
    /\ id \in DOMAIN running
    /\ running[id].op = op
    /\ \A other \in DOMAIN running : running[id].wake <= running[other].wake

\* what a step of call id, whose outcome is r, leaves behind at t: the call
\* has returned, or is in progress (still)
Rest(id, op, r, frame, t) ==
    /\ r.done \/ Cardinality(DOMAIN running \ {id}) < MaxRunning
    /\ IF r.done
       THEN lastCall' = r.rec /\ running' = Drop(running, id)
       ELSE /\ lastCall' = Asleep(id, op, t)
            /\ running' = Put(running, id, [op |-> op, wake |-> r.wake, frame |-> frame])

\* the same for a call that uses the store of get_stock_data
Settle(id, op, r, frame) ==
    /\ stockCache' = r.st.cache
    /\ fetched' = r.st.fetched
    /\ now' = r.st.now
    /\ Rest(id, op, r, frame, r.st.now)

\* data_loader.get_stock_data(symbol, period, interval)
GetStockData(key, prov) ==
    /\ \E r \in {StockCall(Stock(now), key, prov)} :
           Settle(calls + 1, "get_stock_data", r, IF r.done THEN <<>> ELSE r.inner)
    /\ calls' = calls + 1
    /\ UNCHANGED <<multiCache, indexCache, infoCache, newsCache, dropped, clears>>

\* a get_stock_data call goes on: the provider has dealt with its request,
\* or a sleep of its retry loop is over
GetStockDataWake(id) ==
    /\ Sleeping(id, "get_stock_data")
    /\ \E r \in {StockWake(Stock(running[id].wake), running[id].frame)} :
           Settle(id, "get_stock_data", r, IF r.done THEN <<>> ELSE r.inner)
    /\ UNCHANGED <<multiCache, indexCache, infoCache, newsCache, calls, dropped, clears>>

\* data_loader.get_multiple_stocks(symbols, period); provs[i] is what the
\* provider does for the i-th symbol
GetMultipleStocks(symbols, period, provs) ==
    /\ \E r \in {MultiCall(Stock(now), multiCache, symbols, period, provs)} :
           /\ Settle(calls + 1, "get_multiple_stocks", r, IF r.done THEN <<>> ELSE r.frame)
           /\ multiCache' = IF r.done THEN r.mc ELSE multiCache
    /\ calls' = calls + 1
    /\ UNCHANGED <<indexCache, infoCache, newsCache, dropped, clears>>

\* a get_multiple_stocks call goes on, from time.sleep(0.1) or inside the
\* get_stock_data call it is in
GetMultipleStocksWake(id) ==
    /\ Sleeping(id, "get_multiple_stocks")
    /\ \E r \in {MultiWake(Stock(running[id].wake), multiCache, running[id].frame)} :
           /\ Settle(id, "get_multiple_stocks", r, IF r.done THEN <<>> ELSE r.frame)
           /\ multiCache' = IF r.done THEN r.mc ELSE multiCache
    /\ UNCHANGED <<indexCache, infoCache, newsCache, calls, dropped, clears>>

\* data_loader.get_market_indices(); provs[i] is what the provider does for
\* the i-th index
GetMarketIndices(provs) ==
    /\ \E r \in {IndexCall(Stock(now), indexCache, provs)} :
           /\ Settle(calls + 1, "get_market_indices", r, IF r.done THEN <<>> ELSE r.frame)
           /\ indexCache' = IF r.done THEN r.ic ELSE indexCache
    /\ calls' = calls + 1
    /\ UNCHANGED <<multiCache, infoCache, newsCache, dropped, clears>>

\* a get_market_indices call goes on inside the get_stock_data call it is in
GetMarketIndicesWake(id) ==
    /\ Sleeping(id, "get_market_indices")
    /\ \E r \in {IndexWake(Stock(running[id].wake), indexCache, running[id].frame)} :
           /\ Settle(id, "get_market_indices", r, IF r.done THEN <<>> ELSE r.frame)
           /\ indexCache' = IF r.done THEN r.ic ELSE indexCache
    /\ UNCHANGED <<multiCache, infoCache, newsCache, calls, dropped, clears>>

\* data_loader.get_company_info(symbol)
GetCompanyInfo(symbol, prov) ==
    /\ \E r \in {InfoCall(infoCache, now, clears, symbol, prov)} :
           /\ infoCache' = r.fc
           /\ Rest(calls + 1, "get_company_info", r, IF r.done THEN <<>> ELSE r.frame, now)
    /\ calls' = calls + 1
    /\ UNCHANGED <<now, stockCache, multiCache, indexCache, newsCache, fetched, dropped,
                   clears>>

\* a get_company_info call goes on: the provider has dealt with its request
GetCompanyInfoWake(id) ==
    /\ Sleeping(id, "get_company_info")
    /\ \E r \in {InfoWake(infoCache, running[id].wake, clears, running[id].frame)} :
           /\ infoCache' = r.fc
           /\ Rest(id, "get_company_info", r, <<>>, running[id].wake)
    /\ now' = running[id].wake
    /\ UNCHANGED <<stockCache, multiCache, indexCache, newsCache, fetched, calls, dropped,
                   clears>>

\* data_loader.get_stock_news(symbol, count)
GetStockNews(symbol, count) ==
    /\ \E r \in {NewsCall(newsCache, now, clears, symbol, count)} :
           /\ newsCache' = r.nc
           /\ lastCall' = r.rec
    /\ calls' = calls + 1
    /\ UNCHANGED <<now, stockCache, multiCache, indexCache, infoCache, fetched, dropped,
                   clears, running>>

\* data_loader._clean_stock_data(data, symbol), called on its own
CleanStockDataCall(data, symbol) ==
    /\ lastCall' = [op |-> "_clean_stock_data", args |-> <<data, symbol>>,
                    start |-> now, result |-> CleanStockData(data, symbol)]
    /\ calls' = calls + 1
    /\ UNCHANGED <<now, stockCache, multiCache, indexCache, infoCache, newsCache,
                   fetched, dropped, clears, running>>

\* data_loader.format_currency(value) and data_loader.format_number(value)
\* on the same value
FormatValue(value) ==
    /\ lastCall' = [op |-> "format", args |-> <<value>>, start |-> now,
                    currency |-> format_currency(value),
                    number   |-> format_number(value)]
    /\ calls' = calls + 1
    /\ UNCHANGED <<now, stockCache, multiCache, indexCache, infoCache, newsCache,
                   fetched, dropped, clears, running>>

\* variant of ClearCache: only the store of get_stock_data is discarded
ClearCacheStockOnly ==
    /\ stockCache' = EmptyCache
    /\ fetched' = EmptyCache
    /\ dropped' = AllEntries
    /\ clears' = clears + 1
    /\ lastCall' = [op |-> "clear_cache", start |-> now]
    /\ calls' = calls + 1
    /\ UNCHANGED <<now, multiCache, indexCache, infoCache, newsCache, running>>

\* st.cache_data.clear() behind the two "clear cache" buttons: the store of
\* every cached method is discarded and an empty one takes its place.  The
\* calls in progress go on; what they write to the store they started with
\* is lost with it (Live).
ClearCache ==
    /\ stockCache' = EmptyCache
    /\ multiCache' = EmptyCache
    /\ indexCache' = EmptyCache
    /\ infoCache' = EmptyCache
    /\ newsCache' = EmptyCache
    /\ fetched' = EmptyCache
    /\ dropped' = AllEntries
    /\ clears' = clears + 1
    /\ lastCall' = [op |-> "clear_cache", start |-> now]
    /\ calls' = calls + 1
    /\ UNCHANGED <<now, running>>

\* time passes between two operations, to d ticks from now
Passes(d) ==
    /\ \A id \in DOMAIN running : now + d <= running[id].wake
    /\ now' = now + d
    /\ UNCHANGED <<stockCache, multiCache, indexCache, infoCache, newsCache,
                   fetched, calls, lastCall, dropped, clears, running>>

Tick(d) == now + d <= MaxTime /\ Passes(d)

\* at most `limit` operations in a behaviour
Within(limit) == calls < limit

\* the step leaves at most MaxWaiting calls in progress
FewWaiting == Cardinality(DOMAIN running') <= MaxWaiting

Next ==
    \/ \E input \in StockInputs : Within(MaxCalls) /\ GetStockData(input[1], input[2])
    \/ \E id \in DOMAIN running : GetStockDataWake(id)
    \/ Within(MaxCalls) /\ ClearCache
    \/ \E d \in TickSteps : Tick(d)

Spec == Init /\ [][Next]_vars

\* loading batches of symbols, next to single loads of one of them
NextMulti ==
    \/ \E symbols \in SymbolLists :
          \E provs \in [1..Len(symbols) -> BatchProviders] :
             Within(MaxCalls) /\ GetMultipleStocks(symbols, "1y", provs)
    \/ \E id \in DOMAIN running : GetMultipleStocksWake(id)
    \/ \E key \in BatchArgs, prov \in BatchProviders :
          Within(MaxCalls) /\ GetStockData(key, prov)
    \/ \E id \in DOMAIN running : GetStockDataWake(id)
    \/ Within(MaxCalls) /\ ClearCache
    \/ Tick(StockTTL * Second - 1)

SpecMulti == Init /\ [][NextMulti]_vars

\* the market overview, next to single loads of one of the indices
NextIndices ==
    \/ \E provs \in IndexScenarios :
          Within(MaxCalls) /\ GetMarketIndices(provs) /\ FewWaiting
    \/ \E id \in DOMAIN running : GetMarketIndicesWake(id)
    \/ \E key \in IndexArgs, prov \in UpOrDown :
          Within(MaxCalls) /\ GetStockData(key, prov) /\ FewWaiting
    \/ \E id \in DOMAIN running : GetStockDataWake(id)
    \/ Within(MaxCalls) /\ ClearCache
    \/ Tick(StockTTL * Second)

SpecIndices == Init /\ [][NextIndices]_vars

\* the calls in progress, each going on in its turn
Wake ==
    \E id \in DOMAIN running :
        \/ GetStockDataWake(id)
        \/ GetMultipleStocksWake(id)
        \/ GetMarketIndicesWake(id)
        \/ GetCompanyInfoWake(id)

\* every cached method
NextKinds ==
    \/ \E prov \in KindProviders :
          Within(MaxCalls) /\ GetStockData(<<"AAPL", "1y", "1d">>, prov) /\ FewWaiting
    \/ \E prov \in KindProviders :
          Within(MaxCalls) /\ GetMultipleStocks(<<"AAPL">>, "1y", <<prov>>) /\ FewWaiting
    \/ \E provs \in KindScenarios :
          Within(MaxCalls) /\ GetMarketIndices(provs) /\ FewWaiting
    \/ \E prov \in InfoProviders :
          Within(MaxCalls) /\ GetCompanyInfo("AAPL", prov) /\ FewWaiting
    \/ Within(MaxCalls) /\ GetStockNews("AAPL", 2)
    \/ Wake
    \/ \E d \in KindTicks : now + d <= MaxKindsTime /\ Passes(d)

SpecKinds == Init /\ [][NextKinds]_vars

\* every cached method and the "clear cache" button
NextClear ==
    \/ \E prov \in {q \in KindProviders : q.fails = 0} :
          Within(MaxBatchCalls) /\ GetStockData(<<"AAPL", "1y", "1d">>, prov) /\ FewWaiting
    \/ \E prov \in {q \in KindProviders : q.fails = 0} :
          Within(MaxBatchCalls) /\ GetMultipleStocks(<<"AAPL">>, "1y", <<prov>>)
             /\ FewWaiting
    \/ \E provs \in KindScenarios :
          Within(MaxBatchCalls) /\ GetMarketIndices(provs) /\ FewWaiting
    \/ Within(MaxBatchCalls) /\ GetCompanyInfo("AAPL", Answers(FullInfo)) /\ FewWaiting
    \/ Within(MaxBatchCalls) /\ GetStockNews("AAPL", 2)
    \/ Wake
    \/ Within(MaxBatchCalls) /\ ClearCache
    \/ Tick(StockTTL * Second)

SpecClear == Init /\ [][NextClear]_vars

\* the company profile on its own
NextInfo ==
    \/ \E input \in InfoInputs :
          Within(MaxCalls) /\ GetCompanyInfo(input[1], input[2]) /\ FewWaiting
    \/ \E id \in DOMAIN running : GetCompanyInfoWake(id)
    \/ Within(MaxCalls) /\ ClearCache
    \/ \E d \in InfoTicks : now + d <= MaxKindsTime /\ Passes(d)

SpecInfo == Init /\ [][NextInfo]_vars

\* the formatters on their own
NextFormat ==
    \E value \in FormatValues : Within(MaxCalls) /\ FormatValue(value)

SpecFormat == Init /\ [][NextFormat]_vars

\* _clean_stock_data on its own
NextClean ==
    \E data \in CleanInputs, symbol \in {"AAPL"} :
        Within(MaxCalls) /\ CleanStockDataCall(data, symbol)

SpecClean == Init /\ [][NextClean]_vars

---------------------------------------------------------------------------
(* Properties *)

StockCalled == lastCall.op = "get_stock_data"
StockFetched == StockCalled /\ ~lastCall.hit

\* the call started less than the time-to-live after the provider last
\* delivered a series for the same arguments (and no clear since)
WithinTTLOfFetch ==
    /\ StockCalled
    /\ lastCall.prior.known
    /\ lastCall.start < lastCall.prior.at + StockTTL * Second

\* C1 as claimed: a call of get_stock_data that starts less than 5 minutes
\* after a successful fetch for the same arguments returns the stored series,
\* and the provider has been queried at most once over the two calls.
C1_AtMostOneQuery ==
    WithinTTLOfFetch =>
        /\ lastCall.prior.attempts + lastCall.attempts <= 1
        /\ lastCall.result = lastCall.prior.series

\* C1 as amended: such a call makes no provider query at all and returns the
\* stored series; the provider was queried only by the fetching call, once
\* per attempt of its retry loop (1 to max_retries times).
C1_SecondCallFromCache ==
    WithinTTLOfFetch =>
        /\ lastCall.hit
        /\ lastCall.attempts = 0
        /\ lastCall.result = lastCall.prior.series
        /\ lastCall.prior.attempts \in 1..max_retries

\* a second call, later than the fetch but within the time-to-live, after a
\* fetch that needed all its attempts
C1_Witness ==
    /\ WithinTTLOfFetch
    /\ lastCall.start > lastCall.prior.at
    /\ lastCall.prior.attempts = max_retries

CachedOps == {"get_stock_data", "get_multiple_stocks", "get_market_indices",
              "get_company_info", "get_stock_news"}

TTLOf(op) ==
    CASE op = "get_stock_data" -> StockTTL
      [] op = "get_multiple_stocks" -> MultiTTL
      [] op = "get_market_indices" -> IndexTTL
      [] op = "get_company_info" -> InfoTTL
      [] op = "get_stock_news" -> NewsTTL

StoreOf(op) ==
    CASE op = "get_stock_data" -> stockCache
      [] op = "get_multiple_stocks" -> multiCache
      [] op = "get_market_indices" -> indexCache
      [] op = "get_company_info" -> infoCache
      [] op = "get_stock_news" -> newsCache

\* the lookup of the last call found an entry older than the time-to-live
FoundExpired ==
    /\ lastCall.op \in CachedOps
    /\ lastCall.found.present
    /\ lastCall.found.age > TTLOf(lastCall.op) * Second

\* the body of the last call ran
BodyRan ==
    CASE lastCall.op = "get_stock_data" -> lastCall.attempts >= 1
      [] lastCall.op = "get_multiple_stocks" -> Len(lastCall.calls) = Len(lastCall.args[1])
      [] lastCall.op = "get_market_indices" -> Len(lastCall.calls) = Len(IndexNames)
      [] lastCall.op = "get_company_info" -> ~lastCall.hit
      [] lastCall.op = "get_stock_news" ->
            lastCall.result = GetStockNewsBody(lastCall.args[1], lastCall.args[2],
                                               lastCall.start)

\* C2: for every cached method, an entry older than the method's
\* time-to-live is never returned: the call that finds it runs the body
\* again, returns what the body produced and stores that in its place.
C2_ExpiredNeverServed ==
    FoundExpired =>
        /\ ~lastCall.hit
        /\ BodyRan
        /\ StoreOf(lastCall.op)[lastCall.args].value = lastCall.result
        /\ StoreOf(lastCall.op)[lastCall.args].stored >= lastCall.start

\* a company profile found more than an hour old, replaced by another one
C2_Witness ==
    /\ FoundExpired
    /\ lastCall.op = "get_company_info"
    /\ lastCall.result # lastCall.found.value

\* the provider raised on the first two attempts of the last call and
\* answered a series that is not empty on the third
FailedTwiceThenAnswered ==
    /\ StockFetched
    /\ lastCall.prov.fails = 2
    /\ Len(lastCall.prov.data.rows) > 0

\* C3: on a miss, with a provider that raises twice and then answers a series
\* that is not empty, get_stock_data returns the cleaned series after exactly
\* 3 attempts, having slept retry_delay * 1 and then retry_delay * 2, the
\* second delay the longer, and writes it to its store when the two sleeps
\* are over (the store in use, unless the stores were cleared meanwhile).
C3_ThirdAttemptSucceeds ==
    FailedTwiceThenAnswered =>
        /\ lastCall.attempts = 3
        /\ lastCall.result = CleanStockData(lastCall.prov.data, lastCall.args[1])
        /\ lastCall.sleeps = <<retry_delay * 1, retry_delay * 2>>
        /\ lastCall.sleeps[2] > lastCall.sleeps[1]
        /\ lastCall.delivery.at
              = lastCall.start + (lastCall.sleeps[1] + lastCall.sleeps[2]) * Second
        /\ lastCall.epoch = clears =>
              stockCache[lastCall.args].stored = lastCall.delivery.at

C3_Witness ==
    /\ FailedTwiceThenAnswered
    /\ lastCall.attempts = 3
    /\ ~IsNone(lastCall.result)
    /\ Len(lastCall.result.rows) = 2

\* the provider raised on every attempt of the last call
AlwaysFailed == StockFetched /\ lastCall.prov.fails >= max_retries

\* C4: on a miss, with a provider that raises on every attempt,
\* get_stock_data returns (None, after the "failed after max_retries
\* attempts" error) having made exactly max_retries attempts, the last one
\* not followed by a sleep.
C4_ExactlyMaxRetries ==
    AlwaysFailed =>
        /\ lastCall.attempts = max_retries
        /\ IsNone(lastCall.result)
        /\ Len(lastCall.sleeps) = max_retries - 1
        /\ lastCall.messages[Len(lastCall.messages)]
              = Error("Failed to fetch data after attempts", max_retries)

C4_Witness == AlwaysFailed /\ lastCall.attempts = max_retries /\ IsNone(lastCall.result)

\* the provider answered the first attempt of the last call with no rows
AnsweredEmpty ==
    /\ StockFetched
    /\ lastCall.prov.fails = 0
    /\ Len(lastCall.prov.data.rows) = 0

\* what get_stock_data returns, and shows, once its retries are exhausted
Exhausted(symbol) ==
    GetStockDataLoop(symbol, [fails |-> max_retries, data |-> EmptyFrame], 0, <<>>, <<>>)

\* C5 as claimed: an empty answer ends the call after one attempt and no
\* sleep, with an outcome the caller can tell from the one returned after
\* the retries are exhausted.
C5_NotFoundDistinct ==
    AnsweredEmpty =>
        /\ lastCall.attempts = 1
        /\ lastCall.sleeps = <<>>
        /\ lastCall.result # Exhausted(lastCall.args[1]).value

\* C5 as amended: an empty answer ends the call after one attempt and no
\* sleep; the value returned is None, the same as after exhausted retries,
\* and only the error message shown differs ("No data found" instead of
\* "Failed to fetch data after 3 attempts").
C5_NotFoundIsNone ==
    AnsweredEmpty =>
        /\ lastCall.attempts = 1
        /\ lastCall.sleeps = <<>>
        /\ IsNone(lastCall.result)
        /\ lastCall.result = Exhausted(lastCall.args[1]).value
        /\ lastCall.messages = <<Error("No data found for symbol", lastCall.args[1])>>
        /\ lastCall.messages # Exhausted(lastCall.args[1]).messages

C5_Witness == AnsweredEmpty /\ lastCall.attempts = 1 /\ IsNone(lastCall.result)

\* the arguments the docstring of get_stock_data allows
ValidArgs(key) == key[1] # "" /\ key[2] \in Periods /\ key[3] \in Intervals

ConfigurationError == [type |-> "ConfigurationError"]

\* C6 as claimed: a call of get_stock_data with an empty symbol, or a period
\* or interval outside the enumerated tokens, is rejected with a
\* configuration error without any provider attempt.
C6_InvalidArgsRejected ==
    (StockCalled /\ ~ValidArgs(lastCall.args)) =>
        /\ lastCall.attempts = 0
        /\ lastCall.result = ConfigurationError

MultiCalled == lastCall.op = "get_multiple_stocks"
MultiRan == MultiCalled /\ ~lastCall.hit

\* the positions of symbol s in the list of the last batch
Positions(s) == {j \in 1..Len(lastCall.args[1]) : lastCall.args[1][j] = s}
Succeeded(j) == ~IsNone(lastCall.calls[j].result)
Requested == {lastCall.args[1][j] : j \in 1..Len(lastCall.args[1])}
FailedSet == {lastCall.failed[j] : j \in 1..Len(lastCall.failed)}

\* C7: whatever succeeds or fails, a run of get_multiple_stocks calls
\* get_stock_data for every symbol of the list, in order, and returns a
\* dict holding, for every symbol with a successful fetch, the series of its
\* last successful fetch, and nothing but series; a hit returns the stored
\* dict.
C7_BatchNotAborted ==
    /\ MultiRan =>
          /\ Len(lastCall.calls) = Len(lastCall.args[1])
          /\ \A j \in 1..Len(lastCall.args[1]) :
                /\ lastCall.calls[j].op = "get_stock_data"
                /\ lastCall.calls[j].args = <<lastCall.args[1][j], lastCall.args[2], "1d">>
          /\ \A s \in Requested :
                (\E j \in Positions(s) : Succeeded(j)) =>
                    /\ s \in DOMAIN lastCall.result.stock_data
                    /\ lastCall.result.stock_data[s] =
                          lastCall.calls[MaxOf({j \in Positions(s) : Succeeded(j)})].result
          /\ \A s \in DOMAIN lastCall.result.stock_data :
                ~IsNone(lastCall.result.stock_data[s])
    /\ (MultiCalled /\ lastCall.hit) => lastCall.result = multiCache[lastCall.args].value

\* a batch whose first symbol failed and whose second symbol was loaded
C7_Witness ==
    /\ MultiRan
    /\ Len(lastCall.calls) = 2
    /\ ~Succeeded(1)
    /\ Succeeded(2)
    /\ lastCall.args[1][2] \in DOMAIN lastCall.result.stock_data
    /\ lastCall.args[1][1] \notin DOMAIN lastCall.result.stock_data

\* C8 as claimed: the value returned by get_multiple_stocks carries the
\* success map and the set of failed symbols, and every requested symbol is
\* in exactly one of the two.
C8_ReturnsMapAndFailed ==
    MultiRan =>
        /\ lastCall.result = [stock_data |-> lastCall.map, failed_symbols |-> FailedSet]
        /\ \A s \in Requested :
              /\ s \in DOMAIN lastCall.map <=> \E j \in Positions(s) : Succeeded(j)
              /\ s \in FailedSet <=> \E j \in Positions(s) : ~Succeeded(j)
              /\ ~(s \in DOMAIN lastCall.map /\ s \in FailedSet)

\* C8 as amended: the value returned is the success map alone; the list of
\* failed symbols is only shown in a warning.  In a run of the body a
\* requested symbol is in the map iff a fetch for it succeeded and in the
\* failed list iff a fetch for it failed: in exactly one of the two when the
\* symbol is listed once.
C8_ReturnsMapOnly ==
    MultiRan =>
        /\ lastCall.result = [stock_data |-> lastCall.map]
        /\ \A s \in Requested :
              /\ s \in DOMAIN lastCall.map <=> \E j \in Positions(s) : Succeeded(j)
              /\ s \in FailedSet <=> \E j \in Positions(s) : ~Succeeded(j)
              /\ Cardinality(Positions(s)) = 1 =>
                    ~(s \in DOMAIN lastCall.map /\ s \in FailedSet)
        /\ FailedSet \subseteq Requested
        /\ DOMAIN lastCall.map \subseteq Requested
        /\ lastCall.messages = IF Len(lastCall.failed) > 0
                               THEN <<Warning("Failed to load data for", lastCall.failed)>>
                               ELSE <<>>

\* a batch with one symbol loaded and another one failed
C8_Witness ==
    /\ MultiRan
    /\ DOMAIN lastCall.map # {}
    /\ FailedSet # {}
    /\ DOMAIN lastCall.map \cap FailedSet = {}

\* a symbol listed twice, loaded the first time and failed the second
C8_InBoth ==
    /\ MultiRan
    /\ DOMAIN lastCall.map \cap FailedSet # {}

IndexCalled == lastCall.op = "get_market_indices"
IndexRan == IndexCalled /\ ~lastCall.hit

SnapshotFields == {"symbol", "current", "previous", "change", "change_pct",
                   "week_high", "week_low", "avg_volume", "data"}

\* C9: a run of get_market_indices fetches the five indices (5d, 1d) and
\* returns an entry for an index iff its get_stock_data call returned a
\* series of at least 2 bars; an entry has all its fields, the series it was
\* computed from, and change = last close - close before; a hit returns the
\* stored dict.
C9_IndicesIffTwoBars ==
    /\ IndexRan =>
          /\ Len(lastCall.calls) = Len(IndexNames)
          /\ DOMAIN lastCall.result \subseteq {IndexNames[i] : i \in 1..Len(IndexNames)}
          /\ \A i \in 1..Len(IndexNames) :
                LET data == lastCall.calls[i].result
                    n    == Len(data.rows)
                IN  /\ lastCall.calls[i].args = <<IndexSymbols[i], "5d", "1d">>
                    /\ IndexNames[i] \in DOMAIN lastCall.result
                          <=> (~IsNone(data) /\ Len(data.rows) >= 2)
                    /\ IndexNames[i] \in DOMAIN lastCall.result =>
                          LET e == lastCall.result[IndexNames[i]]
                          IN  /\ DOMAIN e = SnapshotFields
                              /\ e.symbol = IndexSymbols[i]
                              /\ e.data = data
                              /\ e.current = data.rows[n].Close
                              /\ e.previous = data.rows[n - 1].Close
                              /\ Val(e.change) = Val(data.rows[n].Close)
                                                   - Val(data.rows[n - 1].Close)
    /\ (IndexCalled /\ lastCall.hit) => lastCall.result = indexCache[<<>>].value

\* the first index failed, the others have an entry, with a change of 1
C9_Witness ==
    /\ IndexRan
    /\ IsNone(lastCall.calls[1].result)
    /\ DOMAIN lastCall.result = {IndexNames[i] : i \in 2..Len(IndexNames)}
    /\ lastCall.result[IndexNames[2]].change = Num(1)

CleanCalled == lastCall.op = "_clean_stock_data"

NoMissing(data) ==
    \A i \in 1..Len(data.rows) : \A c \in Columns : ~IsNaN(data.rows[i][c])

\* a series of at least 20 bars without a missing value was cleaned
CleanedLongSeries ==
    /\ CleanCalled
    /\ NoMissing(lastCall.args[1])
    /\ Len(lastCall.args[1].rows) >= 20

\* every close of the series is above zero, so that every return but the
\* first is a finite number
PositiveCloses(data) ==
    \A i \in 1..Len(data.rows) : Val(data.rows[i].Close) > 0

\* row i (from 1) is index i - 1; indices [0, 19) are the rows 1..19
Undefined(i, field) == IsNaN(lastCall.result.rows[i][field])

\* C10 as claimed: in a cleaned series of n >= 20 bars without missing
\* values, Volatility, Volume_Ratio, Support and Resistance are undefined at
\* the indices [0, 19) and defined at the indices [19, n).
C10_DefinedFrom19 ==
    CleanedLongSeries =>
        \A i \in 1..Len(lastCall.result.rows) :
            \A field \in {"Volatility", "Volume_Ratio", "Support", "Resistance"} :
                Undefined(i, field) <=> i <= 19

\* the 20 bars ending at row i all have volume 0
ZeroVolumeWindow(i) ==
    /\ i >= 20
    /\ \A j \in (i - 19)..i : Val(lastCall.args[1].rows[j].Volume) = 0

\* C10 as amended: in such a series with positive closes Support and
\* Resistance are undefined at the indices [0, 19) and defined at [19, n);
\* Volatility is undefined at
\* [0, 20) and defined at [20, n), the first return being undefined; and
\* Volume_Ratio is undefined at [0, 19) and, from index 19 on, defined
\* unless the 20 bars of its window all have volume 0 (0/0).
C10_DefinedFrom19Or20 ==
    (CleanedLongSeries /\ PositiveCloses(lastCall.args[1])) =>
        /\ Len(lastCall.result.rows) = Len(lastCall.args[1].rows)
        /\ \A i \in 1..Len(lastCall.result.rows) :
              /\ Undefined(i, "Support") <=> i <= 19
              /\ Undefined(i, "Resistance") <=> i <= 19
              /\ Undefined(i, "Volatility") <=> i <= 20
              /\ Undefined(i, "Volume_Ratio") <=> (i <= 19 \/ ZeroVolumeWindow(i))

\* 22 bars: at row 20 the support is defined but the volatility is not, at
\* row 21 both are, and the volume ratio is undefined at row 20 for want of
\* any volume
C10_Witness ==
    /\ CleanedLongSeries
    /\ PositiveCloses(lastCall.args[1])
    /\ Len(lastCall.result.rows) = 22
    /\ ~Undefined(20, "Support")
    /\ Undefined(20, "Volatility")
    /\ ~Undefined(21, "Volatility")
    /\ Undefined(20, "Volume_Ratio")
    /\ ~Undefined(21, "Volume_Ratio")

---------------------------------------------------------------------------
(* C11: get_company_info, absent fields *)

InfoCalled == lastCall.op = "get_company_info"
InfoRan == InfoCalled /\ ~lastCall.hit

\* the response `info` with `key` supplied as `value`
Supplied(info, key, value) ==
    [k \in DOMAIN info \cup {key} |-> IF k = key THEN value ELSE info[k]]

\* C11 as claimed: when the body of get_company_info runs, a numeric field
\* whose key is absent from the provider's response gets a value different
\* from the one it gets when the provider supplies a real zero for that key,
\* and a fetch that raises gives a result that is no profile.
C11_AbsentDistinctFromZero ==
    InfoRan =>
        IF lastCall.prov.raises
        THEN IsNone(lastCall.result)
        ELSE /\ ~IsNone(lastCall.result)
             /\ \A e \in NumberFields :
                   e[2] \notin DOMAIN lastCall.prov.data =>
                       lastCall.result.numbers[e[1]] #
                           KeyMetrics(lastCall.args[1],
                                      Supplied(lastCall.prov.data, e[2], 0)).numbers[e[1]]

---------------------------------------------------------------------------
(* C12: st.cache_data.clear() *)

Cleared == lastCall.op = "clear_cache"

AllStoresEmpty ==
    /\ stockCache = EmptyCache
    /\ multiCache = EmptyCache
    /\ indexCache = EmptyCache
    /\ infoCache = EmptyCache
    /\ newsCache = EmptyCache

\* the last call is one of a cached method and started after a clear, none
\* having followed since
StartedAfterClear ==
    /\ lastCall.op \in CachedOps
    /\ clears > 0
    /\ lastCall.epoch = clears

\* the entries the last clear removed under the arguments of the last call
DroppedForKey == {e \in dropped[lastCall.op] : e.key = lastCall.args}

\* the entry the last call was served
Served ==
    [key    |-> lastCall.args,
     stored |-> lastCall.start - lastCall.found.age,
     epoch  |-> lastCall.found.epoch]

\* C12: once the cache is cleared every store is empty, whatever the age of
\* its entries; from then on the stores hold only entries written after the
\* clear, by calls that started after it; an entry a call is served is none
\* of those the clear removed; and a call that starts after the clear for a
\* key cached before it, nothing having been stored under the key since,
\* runs its body and fetches anew.
C12_ClearDropsAll ==
    /\ Cleared => AllStoresEmpty
    /\ \A op \in CachedOps : \A e \in Entries(StoreOf(op)) : e.epoch = clears
    /\ (lastCall.op \in CachedOps /\ lastCall.hit) =>
          /\ lastCall.found.epoch = clears
          /\ Served \notin dropped[lastCall.op]
    /\ (StartedAfterClear /\ DroppedForKey # {} /\ ~lastCall.found.present) =>
          /\ ~lastCall.hit
          /\ BodyRan

\* a batch asked for again after a clear that removed its entry while still
\* fresh: the symbol is fetched from the provider once more
C12_Witness ==
    /\ StartedAfterClear
    /\ lastCall.op = "get_multiple_stocks"
    /\ \E e \in DroppedForKey : lastCall.start < e.stored + MultiTTL * Second
    /\ ~lastCall.hit
    /\ Len(lastCall.calls) = 1
    /\ lastCall.calls[1].attempts = 1
    /\ Loaded(lastCall.calls[1].result)

---------------------------------------------------------------------------
(* C13: format_currency and format_number *)

FormatCalled == lastCall.op = "format"

\* the suffix for a value by the thresholds 1e12/1e9/1e6/1e3
SuffixByThreshold(value) ==
    IF AtLeast(value, 12) THEN "T"
    ELSE IF AtLeast(value, 9) THEN "B"
    ELSE IF AtLeast(value, 6) THEN "M"
    ELSE IF AtLeast(value, 3) THEN "K"
    ELSE ""

\* the currency symbol followed by the text
WithSymbol(text) == [text EXCEPT !.prefix = "$"]

\* C13 as claimed: for a value that is available and not zero, format_number
\* picks the suffix the thresholds 1e12/1e9/1e6/1e3 give and the same scaled
\* amount as format_currency, so that format_currency(v) is "$" followed by
\* format_number(v); for a value that is not available or zero both return
\* "N/A".
C13_SameScaling ==
    FormatCalled =>
        IF IsNA(lastCall.args[1]) \/ IsZero(lastCall.args[1])
        THEN lastCall.currency = NotAvailable /\ lastCall.number = NotAvailable
        ELSE /\ lastCall.number # NotAvailable
             /\ lastCall.number.suffix = SuffixByThreshold(lastCall.args[1])
             /\ lastCall.currency = WithSymbol(lastCall.number)

---------------------------------------------------------------------------
(* C14: the age of the series handed out *)

\* ticks between the provider delivering the series and the start of the
\* last call, for a series get_stock_data returned
StockAge == lastCall.start - lastCall.delivery.at

\* the same for the series of `symbol` in the dict get_multiple_stocks
\* returned
BatchAge(symbol) == lastCall.start - lastCall.origin[symbol].at

\* C14 as claimed: every series returned by get_stock_data or inside the
\* dict returned by get_multiple_stocks was delivered by the provider no
\* more than 5 minutes before the call that returns it.
C14_SeriesAtMostTTLOld ==
    /\ (StockCalled /\ Loaded(lastCall.result)) => StockAge <= StockTTL * Second
    /\ MultiCalled =>
          \A symbol \in DOMAIN lastCall.result.stock_data :
              BatchAge(symbol) <= StockTTL * Second

---------------------------------------------------------------------------
(* C15: failures and the store of get_stock_data *)

StockFailed == StockCalled /\ IsNone(lastCall.result)

\* C15 as claimed: when get_stock_data returns a failure (no data found, or
\* the retries exhausted), the call has made at least one provider attempt,
\* none being served from the store, and leaves no entry under its arguments.
C15_FailuresNotCached ==
    StockFailed =>
        /\ lastCall.args \notin DOMAIN stockCache
        /\ ~lastCall.hit
        /\ lastCall.attempts >= 1

====
